---- MODULE Spec2Model ----
(***************************************************************************)
(* cr2/thermal.py: BaseThermal's parse of trace.txt into a csv string and  *)
(* a data frame.  A string is a sequence of one-character strings, so that *)
(* the regular expressions of the source are computed character by         *)
(* character.                                                              *)
(***************************************************************************)
EXTENDS Integers, Sequences, FiniteSets, TLC

VARIABLES
    unique_word,    \* self.unique_word, the pattern handed to re.search
    file,           \* trace.txt: a sequence of records [marker, toks]
    pc,             \* where BaseThermal.__init__ stands
    array_lengths,  \* the defaultdict get_trace_array_lengths builds
    scan_idx,       \* the next line of get_trace_array_lengths' loop
    line_idx,       \* the next line of __parse_into_csv's loop
    timestamp,      \* __parse_into_csv's local timestamp
    data_in,        \* the data_str handed to trace_parser_explode_array
    string,         \* trace_parser_explode_array's local string
    header,         \* __parse_into_csv's local header
    data_csv,       \* self.data_csv
    data_frame,     \* self.data_frame
    error           \* the exception __init__ ends with, "" for none

vars == <<unique_word, file, pc, array_lengths, scan_idx, line_idx, timestamp,
          data_in, string, header, data_csv, data_frame, error>>

\* The total number of key=value tokens of the lines of trace.txt.
MaxTokens == 2

\* The largest length a dict handed to trace_parser_explode_array holds.
MaxWidth == 3

-----------------------------------------------------------------------------
(* Characters and strings *)

\* [A-Za-z0-9_]
WordChars ==
    {"a","b","c","d","e","f","g","h","i","j","k","l","m","n","o","p","q","r",
     "s","t","u","v","w","x","y","z","A","B","C","D","E","F","G","H","I","J",
     "K","L","M","N","O","P","Q","R","S","T","U","V","W","X","Y","Z","0","1",
     "2","3","4","5","6","7","8","9","_"}

\* [0-9]
DigitChars == {"0","1","2","3","4","5","6","7","8","9"}

DigitSeq == <<"0","1","2","3","4","5","6","7","8","9">>

\* A character class: the characters of set, or all but those when neg.
Word == [neg |-> FALSE, set |-> WordChars]
Digit == [neg |-> FALSE, set |-> DigitChars]
NotSpace == [neg |-> TRUE, set |-> {" "}]
NotSpaceBrace == [neg |-> TRUE, set |-> {" ", "{"}]
NotClose == [neg |-> TRUE, set |-> {"}"}]
NotEquals == [neg |-> TRUE, set |-> {"="}]

InClass(c, cls) == IF cls.neg THEN c \notin cls.set ELSE c \in cls.set

SetMin(S) == CHOOSE x \in S : \A y \in S : x <= y
SetMax(S) == CHOOSE x \in S : \A y \in S : x >= y

\* s[i:] of Python, i counted from 1.
From(s, i) == SubSeq(s, i, Len(s))

\* The last index of the longest run of cls characters that starts at i;
\* i - 1 when s[i] is not of the class (a greedy cls* at i).
RECURSIVE RunEnd(_, _, _)
RunEnd(s, i, cls) ==
    IF i > Len(s) \/ ~InClass(s[i], cls) THEN i - 1
    ELSE RunEnd(s, i + 1, cls)

\* Whether s holds the characters lit from index i on.
LitAt(s, i, lit) ==
    /\ i + Len(lit) - 1 <= Len(s)
    /\ \A k \in 1..Len(lit) : s[i + k - 1] = lit[k]

\* str.split(sep) for a one-character sep: always at least one piece.
RECURSIVE Split(_, _)
Split(s, sep) ==
    LET at == {k \in 1..Len(s) : s[k] = sep}
    IN  IF at = {} THEN <<s>>
        ELSE LET p == SetMin(at)
             IN  <<SubSeq(s, 1, p - 1)>> \o Split(From(s, p + 1), sep)

\* "{}".format(idx) for idx >= 0.
RECURSIVE IntToStr(_)
IntToStr(n) ==
    IF n < 10 THEN <<DigitSeq[n + 1]>>
    ELSE IntToStr(n \div 10) \o <<DigitSeq[(n % 10) + 1]>>

-----------------------------------------------------------------------------
(* trace.txt: what the file holds *)

TimestampText == <<"1", ".", "0">>

\* The event names of the lines: the first is the traced event.
Markers == {<<"M", ":">>, <<"N", ":">>}

\* The patterns a subclass hands to BaseThermal.__init__ as unique_word.
UniqueWords == {<<"M", ":">>, <<"M", ".">>}

\* The key=value tokens of a line: a scalar x=1, the array a with one
\* element, with two and with none, and an array whose key a-b is more than
\* one word.
Tokens ==
    { [key |-> <<"x">>, array |-> FALSE, vals |-> << <<"1">> >>],
      [key |-> <<"a">>, array |-> TRUE, vals |-> << <<"1">> >>],
      [key |-> <<"a">>, array |-> TRUE, vals |-> << <<"1">>, <<"2">> >>],
      [key |-> <<"a">>, array |-> TRUE, vals |-> << >>],
      [key |-> <<"a", "-", "b">>, array |-> TRUE, vals |-> << <<"1">> >>] }

RECURSIVE JoinWith(_, _)
JoinWith(seqs, sep) ==
    IF seqs = <<>> THEN <<>>
    ELSE IF Len(seqs) = 1 THEN seqs[1]
    ELSE seqs[1] \o sep \o JoinWith(Tail(seqs), sep)

\* A token as the file holds it: x=1, a={1 2}, a={}.
TokText(t) ==
    t.key \o <<"=">> \o
        (IF t.array THEN <<"{">> \o JoinWith(t.vals, <<" ">>) \o <<"}">>
         ELSE t.vals[1])

RECURSIVE TokSeqs(_)
TokSeqs(k) ==
    IF k = 0 THEN {<<>>}
    ELSE {<<t>> \o r : t \in Tokens, r \in TokSeqs(k - 1)}

LinesOf(k) == [marker : Markers, toks : TokSeqs(k)]

\* The files whose lines hold at most t tokens in all, one at least a line.
RECURSIVE Files(_)
Files(t) ==
    {<<>>} \cup
    UNION { {<<l>> \o f : l \in LinesOf(k), f \in Files(t - k)} : k \in 1..t }

\* One line as the file holds it: "1.0: M: x=1 a={1 2}\n".
LineText(l) ==
    TimestampText \o <<":", " ">> \o l.marker \o <<" ">>
        \o JoinWith([k \in 1..Len(l.toks) |-> TokText(l.toks[k])], <<" ">>)
        \o <<"\n">>

-----------------------------------------------------------------------------
(* The regular expressions *)

\* re.search(unique_word, line): a literal character matches itself and "."
\* any character but a newline.
WordMatchesAt(word, s, i) ==
    /\ i + Len(word) - 1 <= Len(s)
    /\ \A k \in 1..Len(word) :
          IF word[k] = "." THEN s[i + k - 1] # "\n"
          ELSE s[i + k - 1] = word[k]

SearchWord(word, s) == \E i \in 1..Len(s) + 1 : WordMatchesAt(word, s, i)

\* The end of a match of ={[^}]+} right after index j, 0 for none: [^}]+
\* runs to the first "}", which has to be there.
ArrayTail(s, j) ==
    IF /\ LitAt(s, j + 1, <<"=", "{">>)
       /\ j + 3 <= Len(s)
       /\ s[j + 3] # "}"
       /\ RunEnd(s, j + 3, NotClose) < Len(s)
    THEN RunEnd(s, j + 3, NotClose) + 1
    ELSE 0

\* The greedy [^ ]+ of r"[^ ]+={[^}]+}", begun at i and now ending at j,
\* gives back characters until the rest matches: the j it ends at, 0 for none.
RECURSIVE BackOff(_, _, _)
BackOff(s, i, j) ==
    IF j < i THEN 0
    ELSE IF ArrayTail(s, j) # 0 THEN j
    ELSE BackOff(s, i, j - 1)

\* The end of the match of a pattern of the source at index i, 0 for no
\* match there.
PatternAt(pat, s, i) ==
    LET r == RunEnd(s, i, Word)
    IN  CASE pat = "explode" ->       \* r"[^ ]+={[^}]+}", line 26
               LET j == BackOff(s, i, RunEnd(s, i, NotSpace))
               IN  IF j = 0 THEN 0 ELSE ArrayTail(s, j)
          [] pat = "array" ->         \* r"([A-Za-z0-9_]+)={([^}]+)}", line 105
               IF r >= i THEN ArrayTail(s, r) ELSE 0
          [] pat = "timestamp" ->     \* r"([0-9]+\.[0-9]+):", line 138
               LET d == RunEnd(s, i, Digit)
                   q == RunEnd(s, d + 2, Digit)
               IN  IF /\ d >= i
                      /\ LitAt(s, d + 1, <<".">>)
                      /\ q >= d + 2
                      /\ LitAt(s, q + 1, <<":">>)
                   THEN q + 1 ELSE 0
          [] pat = "key" ->           \* r"[A-Za-z0-9_]+=", line 154
               IF r >= i /\ LitAt(s, r + 1, <<"=">>) THEN r + 1 ELSE 0
          [] pat = "empty_array" ->   \* r"[A-Za-z0-9_]+=\{\} ", line 141
               IF r >= i /\ LitAt(s, r + 1, <<"=", "{", "}", " ">>)
               THEN r + 4 ELSE 0
          [] pat = "header" ->        \* r"([A-Za-z0-9_]+)=[^ ]+", line 140
               IF /\ r >= i
                  /\ LitAt(s, r + 1, <<"=">>)
                  /\ RunEnd(s, r + 2, NotSpace) >= r + 2
               THEN RunEnd(s, r + 2, NotSpace) ELSE 0
          [] pat = "data" ->          \* r"[A-Za-z0-9_]+=([^ {]+)", line 139
               IF /\ r >= i
                  /\ LitAt(s, r + 1, <<"=">>)
                  /\ RunEnd(s, r + 2, NotSpaceBrace) >= r + 2
               THEN RunEnd(s, r + 2, NotSpaceBrace) ELSE 0
          [] pat = "comma" -> IF s[i] = "," THEN i ELSE 0      \* line 169
          [] pat = "space" -> IF s[i] = " " THEN i ELSE 0      \* lines 164, 170

\* re.search: the leftmost index from i on where the pattern matches, 0 for
\* None.
RECURSIVE Leftmost(_, _, _)
Leftmost(pat, s, i) ==
    IF i > Len(s) THEN 0
    ELSE IF PatternAt(pat, s, i) # 0 THEN i
    ELSE Leftmost(pat, s, i + 1)

\* re.search(r"[^ ]+={[^}]+}", string): <<match.start(), match.end()>>, both
\* counted from 1 and the end inclusive; <<0, 0>> for None.
ExplodeSearch(s) ==
    LET at == Leftmost("explode", s, 1)
    IN  IF at = 0 THEN <<0, 0>> ELSE <<at, PatternAt("explode", s, at)>>

\* re.search(pat_array, line): <<start, last index of the name, end>>.
ArraySearch(s) ==
    LET at == Leftmost("array", s, 1)
    IN  IF at = 0 THEN <<0, 0, 0>>
        ELSE <<at, RunEnd(s, at, Word), PatternAt("array", s, at)>>

\* re.search(pat_timestamp, line).group(1): the match without its colon.
TimestampSearch(s) ==
    LET at == Leftmost("timestamp", s, 1)
    IN  IF at = 0 THEN <<>>
        ELSE SubSeq(s, at, PatternAt("timestamp", s, at) - 1)

\* re.search(r"[A-Za-z0-9_]+=", line).start(), 0 for None.
DataStart(s) == Leftmost("key", s, 1)

\* What re.sub puts in the place of the match s[i..e].
SubRepl(pat, s, i, e) ==
    CASE pat = "empty_array" -> <<>>
      [] pat = "header" -> SubSeq(s, i, RunEnd(s, i, Word))
      [] pat = "data" -> SubSeq(s, RunEnd(s, i, Word) + 2, e)
      [] pat = "comma" -> <<>>
      [] pat = "space" -> <<",">>

\* re.sub(pat, repl, s) from index i on: the matches left to right, none
\* overlapping another.
RECURSIVE ReSubFrom(_, _, _)
ReSubFrom(pat, s, i) ==
    IF i > Len(s) THEN <<>>
    ELSE LET e == PatternAt(pat, s, i)
         IN  IF e = 0 THEN <<s[i]>> \o ReSubFrom(pat, s, i + 1)
             ELSE SubRepl(pat, s, i, e) \o ReSubFrom(pat, s, e + 1)

ReSub(pat, s) == ReSubFrom(pat, s, 1)

-----------------------------------------------------------------------------
(* trace_parser_explode_array *)

\* A lookup that forgets the lengths get_trace_array_lengths found.
LookupNone(lengths, name) == 0

\* array_lengths[name] of a defaultdict(int): 0 for a name that is no key.
Lookup(lengths, name) ==
    IF name \in DOMAIN lengths THEN lengths[name] ELSE 0

\* The dict after array_lengths[name] was read: a defaultdict stores the
\* default under a key it is asked for and does not hold.
AfterLookup(lengths, name) ==
    IF name \in DOMAIN lengths THEN lengths ELSE lengths @@ (name :> 0)

\* re.match(r"([^=]+)=", to_explode).groups()[0]
ColBasename(to_explode) == SubSeq(to_explode, 1, RunEnd(to_explode, 1, NotEquals))

\* re.search(r"{(.+)}", to_explode).groups()[0]: from the first "{" that
\* has a character and a "}" after it, to the last "}".
ValsStr(to_explode) ==
    LET open == {q \in 1..Len(to_explode) - 2 : to_explode[q] = "{"}
        close == {q \in 1..Len(to_explode) : to_explode[q] = "}"}
    IN  SubSeq(to_explode, SetMin(open) + 1, SetMax(close) - 1)

\* The loop of lines 36-37: "name<idx>=<val> " for each value.
RECURSIVE ExplodeVals(_, _, _)
ExplodeVals(name, vals, idx) ==
    IF idx >= Len(vals) THEN <<>>
    ELSE name \o IntToStr(idx) \o <<"=">> \o vals[idx + 1] \o <<" ">>
         \o ExplodeVals(name, vals, idx + 1)

\* A loop of lines 40-42 that adds nothing.
PadNone(name, from, to) == <<>>

\* The loop of lines 40-42: "name<idx>=0 " for idx in range(from, to).
RECURSIVE PadVals(_, _, _)
PadVals(name, from, to) ==
    IF from >= to THEN <<>>
    ELSE name \o IntToStr(from) \o <<"=", "0", " ">> \o PadVals(name, from + 1, to)

\* exploded_str of lines 35-44 for one match.
ExplodedStr(to_explode, lengths) ==
    LET name == ColBasename(to_explode)
        vals == Split(ValsStr(to_explode), " ")
        long == ExplodeVals(name, vals, 0)
                    \o PadVals(name, Len(vals), Lookup(lengths, name))
    IN  SubSeq(long, 1, Len(long) - 1)

\* A splice that puts the columns in and leaves the array where it was.
SplicedKeepsMatch(s, m, lengths) ==
    SubSeq(s, 1, m[1] - 1) \o ExplodedStr(SubSeq(s, m[1], m[2]), lengths)
        \o <<" ">> \o From(s, m[1])

\* string after one turn of the while loop, for the match m.
Spliced(s, m, lengths) ==
    SubSeq(s, 1, m[1] - 1) \o ExplodedStr(SubSeq(s, m[1], m[2]), lengths)
        \o From(s, m[2] + 1)

-----------------------------------------------------------------------------
(* get_trace_array_lengths *)

\* A scan that stops at the first array of the line.
ScanArraysOnce(line, ret) ==
    LET m == ArraySearch(line)
    IN  IF m[3] = 0 THEN ret
        ELSE LET array_name == SubSeq(line, m[1], m[2])
                 array_len == Len(Split(SubSeq(line, m[2] + 3, m[3] - 1), " "))
                 seen == AfterLookup(ret, array_name)
             IN  IF array_len > seen[array_name]
                 THEN [seen EXCEPT ![array_name] = array_len]
                 ELSE seen

\* The while loop of lines 114-126 over one line: every array of the line
\* raises the length kept for its name.
RECURSIVE ScanArrays(_, _)
ScanArrays(line, ret) ==
    LET m == ArraySearch(line)
    IN  IF m[3] = 0 THEN ret
        ELSE LET array_name == SubSeq(line, m[1], m[2])
                 array_elements == SubSeq(line, m[2] + 3, m[3] - 1)
                 array_len == Len(Split(array_elements, " "))
                 seen == AfterLookup(ret, array_name)
                 next == IF array_len > seen[array_name]
                         THEN [seen EXCEPT ![array_name] = array_len]
                         ELSE seen
             IN  ScanArrays(From(line, m[3] + 1), next)

-----------------------------------------------------------------------------
(* BaseThermal *)

\* The test of lines 111 and 146: re.search(self.unique_word, line).
LineFilter(word, line) == SearchWord(word, line)

\* A for loop that leaves the last line of the file unread.
ExhaustedEarly(idx, n) == idx >= n

\* Whether the for loop over a file of n lines has consumed them all.
Exhausted(idx, n) == idx > n

\* defaultdict(int)()
EmptyDict == [name \in {} |-> 0]

\* pd.DataFrame()
EmptyFrame == [index |-> <<>>, columns |-> <<>>, rows |-> <<>>]

TimeName == <<"T", "i", "m", "e">>

\* The lines of a csv string, the newline that ends each dropped.
RECURSIVE CsvLines(_)
CsvLines(csv) ==
    IF csv = <<>> THEN <<>>
    ELSE LET end == RunEnd(csv, 1, [neg |-> TRUE, set |-> {"\n"}])
         IN  <<SubSeq(csv, 1, end)>> \o CsvLines(From(csv, end + 2))

\* pd.read_csv(StringIO(csv)) followed by set_index("Time"): the first
\* line names the columns, each later line is a row of fields.
ReadCsv(csv) ==
    LET ls == CsvLines(csv)
    IN  [index |-> TimeName,
         columns |-> Tail(Split(ls[1], ",")),
         rows |-> [i \in 1..Len(ls) - 1 |-> Split(ls[i + 1], ",")]]

\* A test of line 177 that never finds the csv string empty.
NeverEmptyCsv(csv) == FALSE

\* A test of line 162 that finds the header unset on every line.
HeaderUnsetAlways(h) == TRUE

\* The test of line 177, self.data_csv is "".
IsEmptyCsv(csv) == csv = <<>>

\* The test of line 162, not header.
HeaderUnset(h) == h = <<>>

\* header of lines 163-165 for the exploded data_str.
HeaderOf(data_str) ==
    TimeName \o <<",">> \o ReSub("space", ReSub("header", data_str)) \o <<"\n">>

\* parsed_data of lines 168-172.
RowOf(ts, data_str) ==
    ts \o <<",">> \o ReSub("space", ReSub("comma", ReSub("data", data_str)))
       \o <<"\n">>

\* data_str of lines 154-158: the line from its first key on, the empty
\* arrays taken out.
DataStr(line) == ReSub("empty_array", From(line, DataStart(line)))

Init ==
    /\ file \in Files(MaxTokens)
    /\ unique_word \in UniqueWords
    /\ pc = "prescan"
    /\ array_lengths = EmptyDict
    /\ scan_idx = 1
    /\ line_idx = 1
    /\ timestamp = <<>>
    /\ data_in = <<>>
    /\ string = <<>>
    /\ header = <<>>
    /\ data_csv = <<>>
    /\ data_frame = EmptyFrame
    /\ error = ""

\* get_trace_array_lengths, one line of the for loop of line 110.
ScanLine ==
    /\ pc = "prescan"
    /\ ~Exhausted(scan_idx, Len(file))
    /\ LET line == LineText(file[scan_idx])
       IN  array_lengths' = IF LineFilter(unique_word, line)
                            THEN ScanArrays(line, array_lengths)
                            ELSE array_lengths
    /\ scan_idx' = scan_idx + 1
    /\ UNCHANGED <<unique_word, file, pc, line_idx, timestamp, data_in, string,
                   header, data_csv, data_frame, error>>

\* get_trace_array_lengths returns to __parse_into_csv, line 136.
ScanReturn ==
    /\ pc = "prescan"
    /\ Exhausted(scan_idx, Len(file))
    /\ pc' = "parse"
    /\ UNCHANGED <<unique_word, file, array_lengths, scan_idx, line_idx,
                   timestamp, data_in, string, header, data_csv, data_frame,
                   error>>

\* __parse_into_csv, a line the filter of line 146 drops.
SkipLine ==
    /\ pc = "parse"
    /\ ~Exhausted(line_idx, Len(file))
    /\ ~LineFilter(unique_word, LineText(file[line_idx]))
    /\ line_idx' = line_idx + 1
    /\ UNCHANGED <<unique_word, file, pc, array_lengths, scan_idx, timestamp,
                   data_in, string, header, data_csv, data_frame, error>>

\* __parse_into_csv, lines 149-160 up to the call of
\* trace_parser_explode_array.
StartLine ==
    /\ pc = "parse"
    /\ ~Exhausted(line_idx, Len(file))
    /\ LineFilter(unique_word, LineText(file[line_idx]))
    /\ LET text == LineText(file[line_idx])
           line == SubSeq(text, 1, Len(text) - 1)
       IN  /\ timestamp' = TimestampSearch(line)
           /\ data_in' = DataStr(line)
           /\ string' = DataStr(line)
    /\ pc' = "explode"
    /\ UNCHANGED <<unique_word, file, array_lengths, scan_idx, line_idx, header,
                   data_csv, data_frame, error>>

\* trace_parser_explode_array, one turn of the while loop of line 25.
ExplodeStep ==
    /\ pc = "explode"
    /\ LET m == ExplodeSearch(string)
       IN  /\ m[2] # 0
           /\ string' = Spliced(string, m, array_lengths)
           /\ array_lengths' =
                  AfterLookup(array_lengths,
                              ColBasename(SubSeq(string, m[1], m[2])))
    /\ UNCHANGED <<unique_word, file, pc, scan_idx, line_idx, timestamp,
                   data_in, header, data_csv, data_frame, error>>

\* trace_parser_explode_array returns string, lines 27-28 and 50.
ExplodeReturn ==
    /\ pc = "explode"
    /\ ExplodeSearch(string)[2] = 0
    /\ pc' = "extract"
    /\ UNCHANGED <<unique_word, file, array_lengths, scan_idx, line_idx,
                   timestamp, data_in, string, header, data_csv, data_frame,
                   error>>

\* __parse_into_csv, lines 162-173: the header once, a row for the line.
FinishLine ==
    /\ pc = "extract"
    /\ header' = IF HeaderUnset(header) THEN HeaderOf(string) ELSE header
    /\ data_csv' = (IF HeaderUnset(header) THEN HeaderOf(string) ELSE data_csv)
                       \o RowOf(timestamp, string)
    /\ line_idx' = line_idx + 1
    /\ pc' = "parse"
    /\ UNCHANGED <<unique_word, file, array_lengths, scan_idx, timestamp,
                   data_in, string, data_frame, error>>

\* __parse_into_csv returns to __init__, line 70.
ParseReturn ==
    /\ pc = "parse"
    /\ Exhausted(line_idx, Len(file))
    /\ pc' = "frame"
    /\ UNCHANGED <<unique_word, file, array_lengths, scan_idx, line_idx,
                   timestamp, data_in, string, header, data_csv, data_frame,
                   error>>

\* __create_data_frame: pd.read_csv raises on a string with no line.
CreateDataFrame ==
    /\ pc = "frame"
    /\ data_frame' = IF IsEmptyCsv(data_csv) THEN EmptyFrame
                     ELSE IF data_csv = <<>> THEN data_frame
                     ELSE ReadCsv(data_csv)
    /\ error' = IF ~IsEmptyCsv(data_csv) /\ data_csv = <<>>
                THEN "EmptyDataError"
                ELSE ""
    /\ pc' = "done"
    /\ UNCHANGED <<unique_word, file, array_lengths, scan_idx, line_idx,
                   timestamp, data_in, string, header, data_csv>>

Next ==
    \/ ScanLine
    \/ ScanReturn
    \/ SkipLine
    \/ StartLine
    \/ ExplodeStep
    \/ ExplodeReturn
    \/ FinishLine
    \/ ParseReturn
    \/ CreateDataFrame

Spec == Init /\ [][Next]_vars

-----------------------------------------------------------------------------
(* trace_parser_explode_array called on its own, as its docstring does:    *)
(* any payload, any dict of lengths for the array names.                   *)

Payloads ==
    UNION { {JoinWith([k \in 1..Len(ts) |-> TokText(ts[k])], <<" ">>) :
                ts \in TokSeqs(n)} : n \in 1..MaxTokens }

ArrayNames == {t.key : t \in {u \in Tokens : u.array}}

InitExplode ==
    /\ data_in \in Payloads
    /\ string = data_in
    /\ array_lengths \in [ArrayNames -> 0..MaxWidth]
    /\ unique_word \in {<<"M", ":">>}
    /\ file = <<>>
    /\ pc = "explode"
    /\ scan_idx = 1
    /\ line_idx = 1
    /\ timestamp = <<>>
    /\ header = <<>>
    /\ data_csv = <<>>
    /\ data_frame = EmptyFrame
    /\ error = ""

NextExplode ==
    \/ ExplodeStep
    \/ ExplodeReturn

SpecExplode == InitExplode /\ [][NextExplode]_vars

-----------------------------------------------------------------------------
(* What the claims speak of *)

\* Line i of the file is one the pass works on.
Selected(i) == LineFilter(unique_word, LineText(file[i]))

SelectedLines == {i \in 1..Len(file) : Selected(i)}

Contains(s, lit) == \E k \in 1..Len(s) : LitAt(s, k, lit)

IsWordName(key) == key # <<>> /\ \A k \in 1..Len(key) : key[k] \in WordChars

\* The characters of a flat token before its first "=".
KeyOf(tok) ==
    LET eq == {k \in 1..Len(tok) : tok[k] = "="}
    IN  IF eq = {} THEN tok ELSE SubSeq(tok, 1, SetMin(eq) - 1)

\* The space-separated tokens of an exploded payload.
FlatTokens(s) == IF s = <<>> THEN <<>> ELSE Split(s, " ")

FlatKeys(s) == [k \in 1..Len(FlatTokens(s)) |-> KeyOf(FlatTokens(s)[k])]

\* key is name followed by an index: name0, name1, ...
IsIndexed(key, name) ==
    /\ Len(key) > Len(name)
    /\ SubSeq(key, 1, Len(name)) = name
    /\ \A k \in Len(name) + 1..Len(key) : key[k] \in DigitChars

\* The number of columns name0, name1, ... of an exploded payload.
IndexedCols(s, name) ==
    Cardinality({k \in 1..Len(FlatKeys(s)) : IsIndexed(FlatKeys(s)[k], name)})

\* ArrayWidths[name], 0 for a name the mapping does not hold.
WidthOf(name) ==
    IF name \in DOMAIN array_lengths THEN array_lengths[name] ELSE 0

\* The array tokens of line i, as indexes into its tokens.
ArraysOn(i, name) ==
    {k \in 1..Len(file[i].toks) :
        file[i].toks[k].array /\ file[i].toks[k].key = name}

FilledOn(i, name) == {k \in ArraysOn(i, name) : file[i].toks[k].vals # <<>>}

\* The names that stand before ={...} on some selected line.
ArrayFields ==
    {n \in ArrayNames : IsWordName(n) /\ \E i \in SelectedLines : ArraysOn(i, n) # {}}

-----------------------------------------------------------------------------
(* C1 *)

-----------------------------------------------------------------------------
(* C2 *)

HasEmptyArray(s) == Contains(s, <<"=", "{", "}">>)

\* C2: no empty array name={} is left in the payload the explosion is
\* handed, nor in a row of the csv.
C2_EmptyArraysRemoved ==
    /\ pc \in {"explode", "extract"} => ~HasEmptyArray(data_in)
    /\ ~HasEmptyArray(data_csv)

-----------------------------------------------------------------------------
(* C3 *)

\* The stage of the pass: 0 NOT_STARTED, 1 WIDTHS_COMPUTED, 2 NORMALIZED,
\* 3 MATERIALIZED.
Stage ==
    CASE pc = "prescan" -> 0
      [] pc \in {"parse", "explode", "extract"} -> 1
      [] pc = "frame" -> 2
      [] pc = "done" -> 3

\* C3: a line is normalized only after the prescan has read every line, the
\* table is built only after every line was normalized, and the stages are
\* taken one after the other.
C3_StageOrder ==
    /\ [](/\ (pc \in {"explode", "extract"} \/ line_idx > 1 \/ data_csv # <<>>)
                => scan_idx = Len(file) + 1
          /\ (pc = "done" \/ data_frame # EmptyFrame)
                => (line_idx = Len(file) + 1 /\ scan_idx = Len(file) + 1)
          /\ Stage >= 1 => scan_idx = Len(file) + 1
          /\ Stage >= 2 => line_idx = Len(file) + 1)
    /\ [][Stage' = Stage \/ Stage' = Stage + 1]_vars

\* A pass over two selected lines has built its table.
C3_Witness ==
    /\ pc = "done"
    /\ Len(file) = 2
    /\ Cardinality(SelectedLines) = 2
    /\ data_frame # EmptyFrame

-----------------------------------------------------------------------------
(* C4 *)

\* The name ([A-Za-z0-9_]+) that stands before ={...} in a token: the word
\* its key ends with.
RECURSIVE LastWord(_)
LastWord(key) ==
    IF key = <<>> \/ key[Len(key)] \notin WordChars THEN <<>>
    ELSE LastWord(SubSeq(key, 1, Len(key) - 1)) \o <<key[Len(key)]>>

\* The element counts of the occurrences name={elements} on selected lines.
Counts(name) ==
    {Len(file[i].toks[k].vals) :
        <<i, k>> \in {ik \in SelectedLines \X (1..MaxTokens + 1) :
                        /\ ik[2] <= Len(file[ik[1]].toks)
                        /\ file[ik[1]].toks[ik[2]].array
                        /\ file[ik[1]].toks[ik[2]].vals # <<>>
                        /\ LastWord(file[ik[1]].toks[ik[2]].key) = name}}

ExpectedWidths ==
    [name \in {n \in {LastWord(t.key) : t \in Tokens} : Counts(n) # {}}
        |-> SetMax(Counts(name))]

-----------------------------------------------------------------------------
(* C5 *)

\* The tokens of a payload: it is cut at the spaces that stand outside braces.
RECURSIVE BraceTokens(_, _, _)
BraceTokens(s, i, depth) ==
    IF i > Len(s) THEN <<s>>
    ELSE IF s[i] = " " /\ depth = 0
         THEN <<SubSeq(s, 1, i - 1)>> \o BraceTokens(From(s, i + 1), 1, 0)
    ELSE BraceTokens(s, i + 1,
                     IF s[i] = "{" THEN depth + 1
                     ELSE IF s[i] = "}" THEN depth - 1 ELSE depth)

\* What a token is to become: name={v0 ... v(k-1)} the columns name0=v0 ...
\* name(k-1)=v(k-1) and then name(k)=0 ... name(L-1)=0, any other token
\* itself.
Exploded(tok, lengths) ==
    LET name == KeyOf(tok)
        isArray == /\ Len(tok) >= Len(name) + 4
                   /\ tok[Len(name) + 2] = "{"
                   /\ tok[Len(tok)] = "}"
        elems == Split(SubSeq(tok, Len(name) + 3, Len(tok) - 1), " ")
        width == IF name \in DOMAIN lengths THEN lengths[name] ELSE 0
        n == IF Len(elems) < width THEN width ELSE Len(elems)
    IN  IF isArray
        THEN JoinWith([k \in 1..n |->
                          name \o IntToStr(k - 1) \o <<"=">>
                               \o (IF k <= Len(elems) THEN elems[k] ELSE <<"0">>)],
                      <<" ">>)
        ELSE tok

ExpectedString(s, lengths) ==
    LET toks == BraceTokens(s, 1, 0)
    IN  JoinWith([k \in 1..Len(toks) |-> Exploded(toks[k], lengths)], <<" ">>)

\* C5: the string trace_parser_explode_array returns is its argument with
\* every array replaced in place by its indexed and zero-padded columns, the
\* other tokens and the order of the tokens kept.
C5_ExplodeInPlace ==
    pc = "extract" => string = ExpectedString(data_in, array_lengths)

\* load={1 2} of the docstring: an array of fewer elements than its length
\* was exploded beside a scalar.
C5_Witness ==
    /\ pc = "extract"
    /\ data_in = <<"x", "=", "1", " ", "a", "=", "{", "1", "}">>
    /\ string = <<"x", "=", "1", " ", "a", "0", "=", "1", " ",
                  "a", "1", "=", "0", " ", "a", "2", "=", "0">>

-----------------------------------------------------------------------------
(* C6 *)

\* The first selected line of the file has just been given its row: string
\* still holds its exploded payload.
FirstLineDone ==
    /\ pc = "parse"
    /\ line_idx > 1
    /\ SelectedLines # {}
    /\ line_idx - 1 = SetMin(SelectedLines)

\* The column names of the header.
HeaderNames == Split(SubSeq(header, 1, Len(header) - 1), ",")

\* C6 as stated: the header holds Time and one name for each distinct column
\* name of the first selected line.
C6_HeaderCountsDistinct ==
    FirstLineDone =>
        Len(HeaderNames) =
            1 + Cardinality({FlatKeys(string)[k] : k \in 1..Len(FlatKeys(string))})

\* C6 as amended: the header is Time followed by the key of every token of
\* the exploded payload of the first selected line, in order and a repeated
\* key repeated, and once set it is never changed.
C6_HeaderOfFirstLine ==
    /\ [](FirstLineDone => HeaderNames = <<TimeName>> \o FlatKeys(string))
    /\ [](header # <<>> => SelectedLines # {} /\ line_idx > SetMin(SelectedLines))
    /\ [][header # <<>> => header' = header]_vars

\* Two selected lines of different fields have been given their rows.
C6_Witness ==
    /\ pc = "parse"
    /\ line_idx = 3
    /\ SelectedLines = {1, 2}
    /\ file[1].toks[1].key # file[2].toks[1].key
    /\ header # <<>>

-----------------------------------------------------------------------------
(* C7 *)

\* C7: a pass over a file none of whose lines is selected ends without an
\* error, with an empty csv string and the empty table.
C7_NoLineNoError ==
    (pc = "done" /\ SelectedLines = {}) =>
        /\ error = ""
        /\ data_csv = <<>>
        /\ data_frame = EmptyFrame
        /\ header = <<>>

\* A pass over a file of lines of another event has ended.
C7_Witness == pc = "done" /\ Len(file) = 2 /\ SelectedLines = {}

-----------------------------------------------------------------------------
(* C8 *)

\* C8: the filter selects a line exactly when the marker stands in the line
\* as it is written.
C8_FilterIsSubstring ==
    \A i \in 1..Len(file) :
        (i < scan_idx \/ i < line_idx) =>
            (Selected(i) <=> Contains(LineText(file[i]), unique_word))

-----------------------------------------------------------------------------
(* C9 *)

\* C9: once get_trace_array_lengths has returned, no step of the pass
\* changes the mapping.
C9_WidthsFrozen == [][pc # "prescan" => array_lengths' = array_lengths]_vars

-----------------------------------------------------------------------------
(* C10 *)

\* The arrays name={elements} still to explode: the "={" an element follows.
ArraysLeft(s) ==
    Cardinality({k \in 1..Len(s) - 2 :
                    s[k] = "=" /\ s[k + 1] = "{" /\ s[k + 2] # "}"})

\* C10: every turn of the loop leaves fewer arrays in the string than it
\* found, so the loop ends after as many turns as the payload holds arrays;
\* and the string it returns holds no array.
C10_LoopTerminates ==
    /\ [][(pc = "explode" /\ pc' = "explode")
            => ArraysLeft(string') < ArraysLeft(string)]_vars
    /\ [](pc = "extract" => ArraysLeft(string) = 0)

\* The loop has returned after two turns.
C10_Witness ==
    /\ pc = "extract"
    /\ ArraysLeft(data_in) = 2
    /\ ArraysLeft(string) = 0

====
